---------------------------- MODULE Spec2Model ----------------------------
(***************************************************************************)
(* A model of the dottorrent decoder: Torrent::from_bencode, the pieces    *)
(* loop, the multi-file directory tree (getdir), Sha1Hash::from_buffer and *)
(* the load pipeline Torrent::from_buffer / Torrent::load_file.            *)
(*                                                                         *)
(* A bencode value is a record tagged with its variant:                    *)
(*   [t |-> "Number", n |-> i]       an integer (i64 in the crate)         *)
(*   [t |-> "ByteString", s |-> b]   a sequence of bytes 0..255            *)
(*   [t |-> "List", l |-> <<..>>]    a sequence of values                  *)
(*   [t |-> "Dict", d |-> f]         a function from keys to values        *)
(* Results are [k |-> "Ok", v |-> ..] or [k |-> "Err", e |-> ..]; options  *)
(* are [k |-> "Some", v |-> ..] or [k |-> "None"].                         *)
(***************************************************************************)
EXTENDS Integers, Sequences, FiniteSets, TLC

VARIABLES
  call,           \* the entry point called: load_file, from_buffer, from_bencode
  env,            \* what the file system and the bencode parser answer
  bencode,        \* the value tree handed to from_bencode
  pc,             \* the position of the running call
  frame,          \* the locals of from_bencode
  result,         \* what from_bencode returned
  buffer_result,  \* what from_buffer returned
  load_result     \* what load_file returned

vars == <<call, env, bencode, pc, frame, result, buffer_result, load_result>>

---------------------------------------------------------------------------
(* Values of the bencode crate and of std.                                 *)

Number(n) == [t |-> "Number", n |-> n]
ByteString(s) == [t |-> "ByteString", s |-> s]
List(l) == [t |-> "List", l |-> l]
Dict(d) == [t |-> "Dict", d |-> d]

None == [k |-> "None"]
Some(v) == [k |-> "Some", v |-> v]
Ok(v) == [k |-> "Ok", v |-> v]
Err(e) == [k |-> "Err", e |-> e]

(* An error variant without payload, with a length, with a parser's error. *)
E(variant) == [e |-> variant]
ELen(variant, l) == [e |-> variant, len |-> l]
EParse(variant, pe) == [e |-> variant, pe |-> pe]

(* try_case!(T, ex, err): the payload of ex when it is variant T.          *)
IsCase(variant, ex) == ex.t = variant

(* hm.get(key) of a dictionary.                                            *)
HasKey(hm, key) == key \in DOMAIN hm

(* HashMap with key k bound to v.                                          *)
MapPut(m, k, v) == [x \in (DOMAIN m) \cup {k} |-> IF x = k THEN v ELSE m[x]]

EmptyMap == <<>>

---------------------------------------------------------------------------
(* std::str::from_utf8: the bytes are returned as they are when they are   *)
(* well-formed UTF-8 (1 to 4 byte sequences, no overlong forms, no         *)
(* surrogates, nothing above U+10FFFF).                                    *)

IsCont(b) == b >= 128 /\ b <= 191

RECURSIVE Utf8From(_, _)
Utf8From(s, i) ==
  IF i > Len(s) THEN TRUE
  ELSE LET b == s[i]
           c(j) == IF i + j <= Len(s) THEN s[i + j] ELSE 0
       IN  IF b < 128 THEN Utf8From(s, i + 1)
           ELSE IF b >= 194 /\ b <= 223
             THEN IsCont(c(1)) /\ Utf8From(s, i + 2)
           ELSE IF b = 224
             THEN c(1) >= 160 /\ c(1) <= 191 /\ IsCont(c(2)) /\ Utf8From(s, i + 3)
           ELSE IF b = 237
             THEN c(1) >= 128 /\ c(1) <= 159 /\ IsCont(c(2)) /\ Utf8From(s, i + 3)
           ELSE IF b >= 225 /\ b <= 239
             THEN IsCont(c(1)) /\ IsCont(c(2)) /\ Utf8From(s, i + 3)
           ELSE IF b = 240
             THEN c(1) >= 144 /\ c(1) <= 191 /\ IsCont(c(2)) /\ IsCont(c(3))
                  /\ Utf8From(s, i + 4)
           ELSE IF b >= 241 /\ b <= 243
             THEN IsCont(c(1)) /\ IsCont(c(2)) /\ IsCont(c(3)) /\ Utf8From(s, i + 4)
           ELSE IF b = 244
             THEN c(1) >= 128 /\ c(1) <= 143 /\ IsCont(c(2)) /\ IsCont(c(3))
                  /\ Utf8From(s, i + 4)
           ELSE FALSE

from_utf8(s) == IF Utf8From(s, 1) THEN Ok(s) ELSE Err("Utf8Error")

(* ASCII helpers of the url crate's parsers.                               *)
IsAlpha(b) == (b >= 65 /\ b <= 90) \/ (b >= 97 /\ b <= 122)
IsDigit(b) == b >= 48 /\ b <= 57
ToLower(b) == IF b >= 65 /\ b <= 90 THEN b + 32 ELSE b
Lower(s) == [i \in 1..Len(s) |-> ToLower(s[i])]

(* Length of the scheme of s (letters, digits, + - . before the first ':', *)
(* starting with a letter), or 0 when s has none.                          *)
RECURSIVE SchemeEnd(_, _)
SchemeEnd(s, i) ==
  IF i > Len(s) THEN 0
  ELSE IF s[i] = 58 THEN i - 1
  ELSE IF IsAlpha(s[i]) \/ IsDigit(s[i]) \/ s[i] \in {43, 45, 46}
    THEN SchemeEnd(s, i + 1)
  ELSE 0

(* Url::parse without a base URL: a string with no scheme is a relative    *)
(* URL and is refused; the scheme is stored in lower case.                 *)
UrlParse(ss) ==
  LET n == IF Len(ss) > 0 /\ IsAlpha(ss[1]) THEN SchemeEnd(ss, 1) ELSE 0
  IN  IF n = 0 THEN Err("RelativeUrlWithoutBase")
      ELSE Ok([scheme |-> Lower(SubSeq(ss, 1, n)),
               rest |-> SubSeq(ss, n + 2, Len(ss))])

(* Host::parse: an empty host and a host with a forbidden character are    *)
(* refused; a domain is stored in lower case.                              *)
HostForbidden == {0, 9, 10, 13, 32, 35, 37, 47, 58, 63, 64, 91, 92, 93}

HostParse(ss) ==
  IF Len(ss) = 0 THEN Err("EmptyHost")
  ELSE IF \E i \in 1..Len(ss) : ss[i] \in HostForbidden
    THEN Err("InvalidDomainCharacter")
  ELSE Ok([domain |-> Lower(ss)])

(* Mutant of to_u16: the cast `as u16`, which wraps.                       *)
to_u16Wrapping(n) == Some(n % 65536)

(* ToPrimitive::to_u16 and to_u64 of an i64.                               *)
to_u16(n) == IF n >= 0 /\ n <= 65535 THEN Some(n) ELSE None
to_u64(n) == IF n >= 0 THEN Some(n) ELSE None

---------------------------------------------------------------------------
(* hash.rs                                                                 *)

HashLen == 20

(* Sha1Hash::from_buffer: a copy of the 20 bytes, or InvalidHashLength.    *)
(* The array starts uninitialized; the zip over a slice of exactly 20      *)
(* bytes writes each of its 20 bytes before any of them is read.           *)
Sha1Hash_from_buffer(s) ==
  IF Len(s) = HashLen
    THEN Ok([hash |-> [i \in 1..HashLen |-> s[i]]])
    ELSE Err(ELen("InvalidHashLength", Len(s)))

---------------------------------------------------------------------------
(* torrent.rs: the fields of from_bencode, in the order of the code.       *)

(* A byte-string holding a URL: try_case!(ByteString), from_utf8, then     *)
(* Url::parse, each with the error variant of the field.                   *)
DecodeUrl(be, notAString, invalidUtf8, parseError) ==
  IF ~IsCase("ByteString", be) THEN Err(E(notAString))
  ELSE LET u == from_utf8(be.s)
       IN  IF u.k = "Err" THEN Err(EParse(invalidUtf8, u.e))
           ELSE LET p == UrlParse(u.v)
                IN  IF p.k = "Err" THEN Err(EParse(parseError, p.e))
                    ELSE Ok(p.v)

(* for tracker in t.iter(): the URLs of one tier, in order.                *)
RECURSIVE DecodeTier(_, _, _)
DecodeTier(t, i, tier_vec) ==
  IF i > Len(t) THEN Ok(tier_vec)
  ELSE LET r == DecodeUrl(t[i], "TrackerUrlNotAString",
                          "TrackerUrlInvalidUtf8", "TrackerUrlParseError")
       IN  IF r.k = "Err" THEN r
           ELSE DecodeTier(t, i + 1, Append(tier_vec, r.v))

(* for tier in al.iter(): the tiers, in order.                             *)
RECURSIVE DecodeTiers(_, _, _)
DecodeTiers(al, i, tiers_vec) ==
  IF i > Len(al) THEN Ok(tiers_vec)
  ELSE IF ~IsCase("List", al[i]) THEN Err(E("AnnounceListTierNotAList"))
  ELSE LET r == DecodeTier(al[i].l, 1, <<>>)
       IN  IF r.k = "Err" THEN r
           ELSE DecodeTiers(al, i + 1, Append(tiers_vec, r.v))

(* let announce_list = match hm.get("announce-list")                       *)
DecodeAnnounceList(hm) ==
  IF ~HasKey(hm, "announce-list") THEN Ok(None)
  ELSE LET a == hm["announce-list"]
       IN  IF ~IsCase("List", a) THEN Err(E("AnnounceListNotAList"))
           ELSE LET r == DecodeTiers(a.l, 1, <<>>)
                IN  IF r.k = "Err" THEN r ELSE Ok(Some(r.v))

(* let announce = match hm.get("announce")                                 *)
DecodeAnnounce(hm) ==
  IF ~HasKey(hm, "announce") THEN Ok(None)
  ELSE LET r == DecodeUrl(hm["announce"], "AnnounceUrlNotAString",
                          "AnnounceUrlInvalidUtf8", "AnnounceUrlParseError")
       IN  IF r.k = "Err" THEN r ELSE Ok(Some(r.v))

(* let trackers = match announce_list                                      *)
ResolveTrackers(al, an) ==
  IF al.k = "Some" THEN al.v
  ELSE IF an.k = "Some" THEN << <<an.v>> >>
  ELSE <<>>

(* niter.next() of a slice iterator that has yielded i - 1 elements.       *)
IterNext(n, i) == IF i <= Len(n) THEN Some(n[i]) ELSE None

(* match (niter.next(), niter.next(), niter.next()) against                *)
(* (Some(addr_be), Some(port_be), None).                                   *)
IsHostPortPair(n) ==
  /\ IterNext(n, 1).k = "Some"
  /\ IterNext(n, 2).k = "Some"
  /\ IterNext(n, 3).k = "None"

(* let port = match try_case!(Number, port_be, ..).to_u16()                *)
DecodePort(port_be) ==
  IF ~IsCase("Number", port_be) THEN Err(E("NodePortNotANumber"))
  ELSE LET p == to_u16(port_be.n)
       IN  IF p.k = "None" THEN Err(E("NodePortOutOfRange")) ELSE Ok(p.v)

(* One element of the nodes list.                                          *)
DecodeNode(n_be) ==
  IF ~IsCase("List", n_be) THEN Err(E("NodeNotAList"))
  ELSE IF ~IsHostPortPair(n_be.l) THEN Err(E("NodeInvalidList"))
  ELSE LET addr_be == n_be.l[1]
           port_be == n_be.l[2]
       IN  IF ~IsCase("ByteString", addr_be) THEN Err(E("NodeHostNotAString"))
           ELSE LET u == from_utf8(addr_be.s)
                IN  IF u.k = "Err" THEN Err(EParse("NodeHostInvalidUtf8", u.e))
                    ELSE LET h == HostParse(u.v)
                         IN  IF h.k = "Err"
                               THEN Err(EParse("NodeHostParseError", h.e))
                             ELSE LET p == DecodePort(port_be)
                                  IN  IF p.k = "Err" THEN p
                                      ELSE Ok([host |-> h.v, port |-> p.v])

(* for n_be in nl.iter()                                                   *)
RECURSIVE DecodeNodeList(_, _, _)
DecodeNodeList(nl, i, acc) ==
  IF i > Len(nl) THEN Ok(acc)
  ELSE LET r == DecodeNode(nl[i])
       IN  IF r.k = "Err" THEN r
           ELSE DecodeNodeList(nl, i + 1, Append(acc, r.v))

(* let nodes = match hm.get("nodes")                                       *)
DecodeNodes(hm) ==
  IF ~HasKey(hm, "nodes") THEN Ok(<<>>)
  ELSE IF ~IsCase("List", hm["nodes"]) THEN Err(E("NodeListNotAList"))
  ELSE DecodeNodeList(hm["nodes"].l, 1, <<>>)

(* let urllist = match hm.get("url-list")                                  *)
DecodeUrlList(hm) ==
  IF ~HasKey(hm, "url-list") THEN Ok(None)
  ELSE LET r == DecodeUrl(hm["url-list"], "UrlListNotAString",
                          "UrlListInvalidUtf8", "UrlListParseError")
       IN  IF r.k = "Err" THEN r ELSE Ok(Some(r.v))

(* for h_be in hl.iter()                                                   *)
RECURSIVE DecodeSeedList(_, _, _)
DecodeSeedList(hl, i, acc) ==
  IF i > Len(hl) THEN Ok(acc)
  ELSE LET r == DecodeUrl(hl[i], "HttpSeedNotAString",
                          "HttpSeedInvalidUtf8", "HttpSeedParseError")
       IN  IF r.k = "Err" THEN r
           ELSE DecodeSeedList(hl, i + 1, Append(acc, r.v))

(* let httpseeds = match hm.get("httpseeds")                               *)
DecodeHttpSeeds(hm) ==
  IF ~HasKey(hm, "httpseeds") THEN Ok(<<>>)
  ELSE IF ~IsCase("List", hm["httpseeds"]) THEN Err(E("HttpSeedsNotAList"))
  ELSE DecodeSeedList(hm["httpseeds"].l, 1, <<>>)

(* let info = match hm.get("info"): the top-level dictionary when absent.  *)
SelectInfo(hm) ==
  IF ~HasKey(hm, "info") THEN Ok(hm)
  ELSE IF ~IsCase("Dict", hm["info"]) THEN Err(E("InfoDictNotADict"))
  ELSE Ok(hm["info"].d)

(* let merkle_root = match info.get("root hash")                           *)
DecodeRootHash(inf) ==
  IF ~HasKey(inf, "root hash") THEN Ok(None)
  ELSE IF ~IsCase("ByteString", inf["root hash"])
    THEN Err(E("RootHashNotAString"))
  ELSE LET h == Sha1Hash_from_buffer(inf["root hash"].s)
       IN  IF h.k = "Err" THEN Err(ELen("RootHashInvalidHashLength", h.e.len))
           ELSE Ok(Some(h.v))

(* let private = match info.get("private")                                 *)
DecodePrivate(inf) ==
  IF ~HasKey(inf, "private") THEN Ok(FALSE)
  ELSE IF ~IsCase("Number", inf["private"]) THEN Err(E("PrivateFlagNotANumber"))
  ELSE Ok(inf["private"].n # 0)

(* Mutant of DecodeName: an empty name is refused.                         *)
DecodeNameNonEmpty(inf) ==
  IF ~HasKey(inf, "name") THEN Err(E("NameNotPresent"))
  ELSE IF ~IsCase("ByteString", inf["name"]) THEN Err(E("NameNotAString"))
  ELSE LET u == from_utf8(inf["name"].s)
       IN  IF u.k = "Err" THEN Err(EParse("NameInvalidUtf8", u.e))
           ELSE IF u.v = <<>> THEN Err(E("NameNotPresent"))
           ELSE Ok(u.v)

(* let name = match info.get("name")                                       *)
DecodeName(inf) ==
  IF ~HasKey(inf, "name") THEN Err(E("NameNotPresent"))
  ELSE IF ~IsCase("ByteString", inf["name"]) THEN Err(E("NameNotAString"))
  ELSE LET u == from_utf8(inf["name"].s)
       IN  IF u.k = "Err" THEN Err(EParse("NameInvalidUtf8", u.e)) ELSE Ok(u.v)

(* let piece_length = match info.get("piece length")                       *)
DecodePieceLength(inf) ==
  IF ~HasKey(inf, "piece length") THEN Err(E("PieceLengthNotPresent"))
  ELSE IF ~IsCase("Number", inf["piece length"])
    THEN Err(E("PieceLengthNotANumber"))
  ELSE LET pl == to_u64(inf["piece length"].n)
       IN  IF pl.k = "None" THEN Err(E("PieceLengthOutOfRange")) ELSE Ok(pl.v)

(* let pieces = match info.get("pieces")                                   *)
DecodePieces(inf) ==
  IF ~HasKey(inf, "pieces") THEN Err(E("PiecesNotPresent"))
  ELSE IF ~IsCase("ByteString", inf["pieces"]) THEN Err(E("PiecesNotAString"))
  ELSE Ok(inf["pieces"].s)

(* let length = match try_case!(Number, l, LengthNotANumber).to_u64()      *)
DecodeLength(l) ==
  IF ~IsCase("Number", l) THEN Err(E("LengthNotANumber"))
  ELSE LET n == to_u64(l.n)
       IN  IF n.k = "None" THEN Err(E("LengthOutOfRange")) ELSE Ok(n.v)

(* let files = match info.get("files")                                     *)
DecodeFiles(inf) ==
  IF ~HasKey(inf, "files") THEN Err(E("NietherLengthOrFilesPresent"))
  ELSE IF ~IsCase("List", inf["files"]) THEN Err(E("FilesNotAList"))
  ELSE Ok(inf["files"].l)

---------------------------------------------------------------------------
(* torrent.rs: the directory tree of a multi-file torrent.                 *)

FileNode(n) == [t |-> "FileNode", n |-> n]
DirNode(entries) == [t |-> "DirNode", d |-> entries]

(* Mutant of getdir: a directory is always created afresh                  *)
(* (insert instead of entry().or_insert_with).                             *)
RECURSIVE getdirFresh(_, _)
getdirFresh(dir, dl) ==
  IF dl = <<>> THEN Ok([dir |-> dir, at |-> <<>>])
  ELSE LET nextdir_be == Head(dl)
       IN  IF ~IsCase("ByteString", nextdir_be) THEN Err(E("DirNameNotAString"))
           ELSE LET u == from_utf8(nextdir_be.s)
                IN  IF u.k = "Err" THEN Err(EParse("DirNameInvalidUtf8", u.e))
                    ELSE LET r == getdirFresh(EmptyMap, Tail(dl))
                         IN  IF r.k = "Err" THEN r
                             ELSE Ok([dir |-> MapPut(dir, u.v, DirNode(r.v.dir)),
                                      at |-> <<u.v>> \o r.v.at])

(* Mutant of getdir: a file in the way is replaced by a directory.         *)
RECURSIVE getdirOverFile(_, _)
getdirOverFile(dir, dl) ==
  IF dl = <<>> THEN Ok([dir |-> dir, at |-> <<>>])
  ELSE LET nextdir_be == Head(dl)
       IN  IF ~IsCase("ByteString", nextdir_be) THEN Err(E("DirNameNotAString"))
           ELSE LET u == from_utf8(nextdir_be.s)
                IN  IF u.k = "Err" THEN Err(EParse("DirNameInvalidUtf8", u.e))
                    ELSE LET child == IF u.v \in DOMAIN dir /\ dir[u.v].t = "DirNode"
                                        THEN dir[u.v]
                                        ELSE DirNode(EmptyMap)
                             r == getdirOverFile(child.d, Tail(dl))
                         IN  IF r.k = "Err" THEN r
                             ELSE Ok([dir |-> MapPut(dir, u.v, DirNode(r.v.dir)),
                                      at |-> <<u.v>> \o r.v.at])

(* fn getdir(dir, dl): walks the directory names dl from dir, creating the *)
(* directories that are missing (entry(nextdir).or_insert_with), and       *)
(* returns the map it ends in. The &mut it returns is modelled by the      *)
(* names leading to that map (at) inside the updated dir.                  *)
RECURSIVE getdir(_, _)
getdir(dir, dl) ==
  IF dl = <<>> THEN Ok([dir |-> dir, at |-> <<>>])
  ELSE LET nextdir_be == Head(dl)
       IN  IF ~IsCase("ByteString", nextdir_be) THEN Err(E("DirNameNotAString"))
           ELSE LET u == from_utf8(nextdir_be.s)
                IN  IF u.k = "Err" THEN Err(EParse("DirNameInvalidUtf8", u.e))
                    ELSE LET nextdir == u.v
                             child == IF nextdir \in DOMAIN dir
                                        THEN dir[nextdir]
                                        ELSE DirNode(EmptyMap)
                         IN  IF child.t = "FileNode"
                               THEN Err(E("DuplicateFileName"))
                             ELSE LET r == getdir(child.d, Tail(dl))
                                  IN  IF r.k = "Err" THEN r
                                      ELSE Ok([dir |-> MapPut(dir, nextdir,
                                                        DirNode(r.v.dir)),
                                               at |-> <<nextdir>> \o r.v.at])

(* dir.insert(fname, node) on the map that getdir returned: the updated    *)
(* tree and the value the name was bound to before, if any.                *)
RECURSIVE MapInsertAt(_, _, _, _)
MapInsertAt(dir, at, fname, node) ==
  IF at = <<>>
    THEN [dir |-> MapPut(dir, fname, node),
          old |-> IF fname \in DOMAIN dir THEN Some(dir[fname]) ELSE None]
    ELSE LET r == MapInsertAt(dir[Head(at)].d, Tail(at), fname, node)
         IN  [dir |-> MapPut(dir, Head(at), DirNode(r.dir)), old |-> r.old]

(* let length = match fileinfo.get("length")                               *)
DecodeFileLength(fileinfo) ==
  IF ~HasKey(fileinfo, "length") THEN Err(E("FileLengthNotPresent"))
  ELSE IF ~IsCase("Number", fileinfo["length"])
    THEN Err(E("FileLengthNotANumber"))
  ELSE LET l == to_u64(fileinfo["length"].n)
       IN  IF l.k = "None" THEN Err(E("FileLengthOutOfRange")) ELSE Ok(l.v)

(* let path = match fileinfo.get("path")                                   *)
DecodeFilePath(fileinfo) ==
  IF ~HasKey(fileinfo, "path") THEN Err(E("FilePathNotPresent"))
  ELSE IF ~IsCase("List", fileinfo["path"]) THEN Err(E("FilePathNotAList"))
  ELSE Ok(fileinfo["path"].l)

(* let fname = match from_utf8(try_case!(ByteString, fname_be, ..))        *)
DecodeFileName(fname_be) ==
  IF ~IsCase("ByteString", fname_be) THEN Err(E("FileNameNotAString"))
  ELSE LET u == from_utf8(fname_be.s)
       IN  IF u.k = "Err" THEN Err(EParse("FileNameInvalidUtf8", u.e))
           ELSE Ok(u.v)

(* Mutant of InsertFile: only a file of that name is a duplicate.          *)
InsertFileOverDirectory(g, fname, len) ==
  LET ins == MapInsertAt(g.dir, g.at, fname, FileNode(len))
  IN  IF ins.old.k = "Some" /\ ins.old.v.t = "FileNode"
        THEN Err(E("DuplicateFileName"))
        ELSE Ok(ins.dir)

(* match dir.insert(fname, FileNode(length))                               *)
InsertFile(g, fname, len) ==
  LET ins == MapInsertAt(g.dir, g.at, fname, FileNode(len))
  IN  IF ins.old.k = "Some" THEN Err(E("DuplicateFileName")) ELSE Ok(ins.dir)

(* match path { [dirlist.., ref fname_be] => .., [] => EmptyFilePath }     *)
PlaceFile(tree, path, len) ==
  IF path = <<>> THEN Err(E("EmptyFilePath"))
  ELSE LET dirlist == SubSeq(path, 1, Len(path) - 1)
           fname_be == path[Len(path)]
           g == getdir(tree, dirlist)
       IN  IF g.k = "Err" THEN g
           ELSE LET f == DecodeFileName(fname_be)
                IN  IF f.k = "Err" THEN f ELSE InsertFile(g.v, f.v, len)

(* Mutant of DecodeFileInfo: the path is read before the length.           *)
DecodeFileInfoPathFirst(tree, fileinfo_be) ==
  IF ~IsCase("Dict", fileinfo_be) THEN Err(E("FileInfoNotADict"))
  ELSE LET path == DecodeFilePath(fileinfo_be.d)
       IN  IF path.k = "Err" THEN path
           ELSE IF path.v = <<>> THEN Err(E("EmptyFilePath"))
           ELSE LET len == DecodeFileLength(fileinfo_be.d)
                IN  IF len.k = "Err" THEN len
                    ELSE PlaceFile(tree, path.v, len.v)

(* The body of for fileinfo_be in files.iter(): the tree with the entry    *)
(* added, or the entry's error.                                            *)
DecodeFileInfo(tree, fileinfo_be) ==
  IF ~IsCase("Dict", fileinfo_be) THEN Err(E("FileInfoNotADict"))
  ELSE LET len == DecodeFileLength(fileinfo_be.d)
       IN  IF len.k = "Err" THEN len
           ELSE LET path == DecodeFilePath(fileinfo_be.d)
                IN  IF path.k = "Err" THEN path
                    ELSE PlaceFile(tree, path.v, len.v)

(* Ok(Torrent { .. }) from the locals f and the contents.                  *)
Torrent(f, contents) ==
  [trackers |-> f.trackers, nodes |-> f.nodes, httpseeds |-> f.httpseeds,
   urllist |-> f.urllist, private |-> f.private,
   piece_length |-> f.piece_length, pieces |-> f.pieces_vec,
   merkle_root |-> f.merkle_root, filename |-> f.name, contents |-> contents]

(* LoadFileError and FromBufferError.                                      *)
Io(e) == [layer |-> "Io", io |-> e]
InvalidBencode(e) == [layer |-> "InvalidBencode", syntax |-> e]
FromBencode(e) == [layer |-> "FromBencode", schema |-> e]

---------------------------------------------------------------------------
(* The calls, step by step.                                                *)

NoFrame ==
  [announce_list |-> None, announce |-> None, trackers |-> <<>>,
   nodes |-> <<>>, urllist |-> None, httpseeds |-> <<>>, info |-> EmptyMap,
   merkle_root |-> None, private |-> FALSE, name |-> <<>>,
   piece_length |-> 0, pieces |-> <<>>, pieces_vec |-> <<>>,
   remaining |-> <<>>, files |-> <<>>, fidx |-> 1, filetree |-> EmptyMap]

(* A step of from_bencode that computes r: return Err(e) on an error, go   *)
(* on to position next with r's value in the local named field otherwise.  *)
(* A return drops the locals: the frame is kept as it was before the step  *)
(* that failed.                                                            *)
Step(at, r, field, next) ==
  /\ pc = at
  /\ IF r.k = "Err"
       THEN /\ result' = r
            /\ pc' = "returned"
            /\ UNCHANGED frame
       ELSE /\ frame' = [frame EXCEPT ![field] = r.v]
            /\ pc' = next
            /\ UNCHANGED result
  /\ UNCHANGED <<call, env, bencode, buffer_result, load_result>>

(* let hm = try_case!(Dict, bencode, NotADict)                             *)
CheckRoot ==
  /\ pc = "from_bencode"
  /\ IF IsCase("Dict", bencode)
       THEN pc' = "announce_list" /\ UNCHANGED result
       ELSE pc' = "returned" /\ result' = Err(E("NotADict"))
  /\ UNCHANGED <<call, env, bencode, frame, buffer_result, load_result>>

ReadAnnounceList ==
  Step("announce_list", DecodeAnnounceList(bencode.d), "announce_list", "announce")

ReadAnnounce ==
  Step("announce", DecodeAnnounce(bencode.d), "announce", "trackers")

ChooseTrackers ==
  Step("trackers", Ok(ResolveTrackers(frame.announce_list, frame.announce)),
       "trackers", "nodes")

ReadNodes == Step("nodes", DecodeNodes(bencode.d), "nodes", "url_list")

ReadUrlList == Step("url_list", DecodeUrlList(bencode.d), "urllist", "httpseeds")

ReadHttpSeeds == Step("httpseeds", DecodeHttpSeeds(bencode.d), "httpseeds", "info")

ReadInfo == Step("info", SelectInfo(bencode.d), "info", "root_hash")

ReadRootHash ==
  Step("root_hash", DecodeRootHash(frame.info), "merkle_root", "private")

ReadPrivate == Step("private", DecodePrivate(frame.info), "private", "name")

ReadName == Step("name", DecodeName(frame.info), "name", "piece_length")

ReadPieceLength ==
  Step("piece_length", DecodePieceLength(frame.info), "piece_length", "pieces")

(* let pieces = ..; let mut pieces_vec = Vec::new(); let mut remaining =   *)
(* &pieces[..]                                                             *)
ReadPieces ==
  /\ pc = "pieces"
  /\ LET r == DecodePieces(frame.info)
     IN  IF r.k = "Err"
           THEN /\ result' = r
                /\ pc' = "returned"
                /\ UNCHANGED frame
           ELSE /\ frame' = [frame EXCEPT !.pieces = r.v, !.pieces_vec = <<>>,
                                          !.remaining = r.v]
                /\ pc' = "slice"
                /\ UNCHANGED result
  /\ UNCHANGED <<call, env, bencode, buffer_result, load_result>>

(* One pass of the loop over remaining.                                    *)
SlicePiece ==
  /\ pc = "slice"
  /\ IF Len(frame.remaining) < HashLen
       THEN /\ result' = Err(ELen("InvalidPiecesLength", Len(frame.pieces)))
            /\ pc' = "returned"
            /\ UNCHANGED frame
       ELSE LET h == Sha1Hash_from_buffer(SubSeq(frame.remaining, 1, HashLen))
                rest == SubSeq(frame.remaining, HashLen + 1, Len(frame.remaining))
            IN  /\ frame' = [frame EXCEPT !.pieces_vec = Append(@, h.v),
                                          !.remaining = rest]
                /\ pc' = IF Len(rest) = 0 THEN "length" ELSE "slice"
                /\ UNCHANGED result
  /\ UNCHANGED <<call, env, bencode, buffer_result, load_result>>

(* Mutant of IsSingleFile: a files key makes the torrent multi-file.       *)
IsSingleFileUnlessFiles(inf) == HasKey(inf, "length") /\ ~HasKey(inf, "files")

(* match info.get("length") { Some(l) => a single file, None => files }    *)
IsSingleFile(inf) == HasKey(inf, "length")

(* The content step: a single file, or the start of the loop over files.   *)
ReadLength ==
  /\ pc = "length"
  /\ IF IsSingleFile(frame.info)
       THEN LET r == DecodeLength(frame.info["length"])
            IN  /\ result' = IF r.k = "Err" THEN r
                             ELSE Ok(Torrent(frame, FileNode(r.v)))
                /\ pc' = "returned"
                /\ UNCHANGED frame
       ELSE LET r == DecodeFiles(frame.info)
            IN  IF r.k = "Err"
                  THEN /\ result' = r
                       /\ pc' = "returned"
                       /\ UNCHANGED frame
                  ELSE /\ frame' = [frame EXCEPT !.files = r.v, !.fidx = 1,
                                                 !.filetree = EmptyMap]
                       /\ pc' = "files"
                       /\ UNCHANGED result
  /\ UNCHANGED <<call, env, bencode, buffer_result, load_result>>

(* One pass of for fileinfo_be in files.iter().                            *)
ReadFileInfo ==
  /\ pc = "files"
  /\ frame.fidx <= Len(frame.files)
  /\ LET r == DecodeFileInfo(frame.filetree, frame.files[frame.fidx])
     IN  IF r.k = "Err"
           THEN /\ result' = r
                /\ pc' = "returned"
                /\ UNCHANGED frame
           ELSE /\ frame' = [frame EXCEPT !.filetree = r.v, !.fidx = @ + 1]
                /\ pc' = "files"
                /\ UNCHANGED result
  /\ UNCHANGED <<call, env, bencode, buffer_result, load_result>>

(* The loop is over: Ok(Torrent { .., contents: DirNode(filetree) }).      *)
ReturnMultiFile ==
  /\ pc = "files"
  /\ frame.fidx > Len(frame.files)
  /\ result' = Ok(Torrent(frame, DirNode(frame.filetree)))
  /\ pc' = "returned"
  /\ UNCHANGED <<call, env, bencode, frame, buffer_result, load_result>>

(* load_file: File::open(path).                                            *)
OpenFile ==
  /\ pc = "open"
  /\ IF env.open.k = "Err"
       THEN load_result' = Err(Io(env.open.e)) /\ pc' = "load_returned"
       ELSE pc' = "read" /\ UNCHANGED load_result
  /\ UNCHANGED <<call, env, bencode, frame, result, buffer_result>>

(* load_file: f.read_to_end(&mut data), then the call of from_buffer.      *)
ReadFile ==
  /\ pc = "read"
  /\ IF env.read.k = "Err"
       THEN load_result' = Err(Io(env.read.e)) /\ pc' = "load_returned"
       ELSE pc' = "from_buffer" /\ UNCHANGED load_result
  /\ UNCHANGED <<call, env, bencode, frame, result, buffer_result>>

(* from_buffer: bencode::from_buffer(s), then the call of from_bencode.    *)
ParseBuffer ==
  /\ pc = "from_buffer"
  /\ IF env.parse.k = "Err"
       THEN /\ buffer_result' = Err(InvalidBencode(env.parse.e))
            /\ pc' = "buffer_returned"
            /\ UNCHANGED bencode
       ELSE /\ bencode' = env.parse.v
            /\ pc' = "from_bencode"
            /\ UNCHANGED buffer_result
  /\ UNCHANGED <<call, env, frame, result, load_result>>

(* from_buffer: FromBencode::from_bencode(&ben).map_err(FromBencode)       *)
ReturnFromBuffer ==
  /\ pc = "returned"
  /\ call \in {"from_buffer", "load_file"}
  /\ buffer_result' = IF result.k = "Err" THEN Err(FromBencode(result.e))
                      ELSE result
  /\ pc' = "buffer_returned"
  /\ UNCHANGED <<call, env, bencode, frame, result, load_result>>

(* Mutant of ReturnLoadFile: every error of from_buffer is reported as     *)
(* InvalidBencode.                                                         *)
ReturnLoadFileCollapsed ==
  /\ pc = "buffer_returned"
  /\ call = "load_file"
  /\ load_result' =
       IF buffer_result.k = "Ok" THEN buffer_result
       ELSE Err(InvalidBencode("syntax"))
  /\ pc' = "load_returned"
  /\ UNCHANGED <<call, env, bencode, frame, result, buffer_result>>

(* load_file: match Torrent::from_buffer(data.as_slice())                  *)
ReturnLoadFile ==
  /\ pc = "buffer_returned"
  /\ call = "load_file"
  /\ load_result' =
       IF buffer_result.k = "Ok" THEN buffer_result
       ELSE IF buffer_result.e.layer = "InvalidBencode"
         THEN Err(InvalidBencode(buffer_result.e.syntax))
       ELSE Err(FromBencode(buffer_result.e.schema))
  /\ pc' = "load_returned"
  /\ UNCHANGED <<call, env, bencode, frame, result, buffer_result>>

Next ==
  \/ CheckRoot
  \/ ReadAnnounceList
  \/ ReadAnnounce
  \/ ChooseTrackers
  \/ ReadNodes
  \/ ReadUrlList
  \/ ReadHttpSeeds
  \/ ReadInfo
  \/ ReadRootHash
  \/ ReadPrivate
  \/ ReadName
  \/ ReadPieceLength
  \/ ReadPieces
  \/ SlicePiece
  \/ ReadLength
  \/ ReadFileInfo
  \/ ReturnMultiFile
  \/ OpenFile
  \/ ReadFile
  \/ ParseBuffer
  \/ ReturnFromBuffer
  \/ ReturnLoadFile

---------------------------------------------------------------------------
(* The inputs: bounded sets of value trees, each varying the fields one    *)
(* part of the decoder reads around a descriptor that decodes.             *)

MaxTiers == 2
MaxNodes == 2
MaxFiles == 3
MaxPiecesLen == 41

SeqsUpTo(S, n) == UNION {[1..k -> S] : k \in 0..n}

(* "h:a", "H:b" (URLs), "a/b" (no scheme), bytes that are not UTF-8.       *)
UrlA == <<104, 58, 97>>
UrlB == <<72, 58, 98>>
NoScheme == <<97, 47, 98>>
BadUtf8 == <<97, 255>>
(* "a.B" and "c" (hosts), "a/" (not a host).                               *)
HostA == <<97, 46, 66>>
HostC == <<99>>
BadHost == <<97, 47>>
(* "x", "y", and a two-byte character.                                     *)
NameX == <<120>>
NameY == <<121>>
NameU == <<195, 169>>

(* n bytes, the i-th one i * seed modulo 256.                              *)
PieceBytes(n, seed) == [i \in 1..n |-> (i * seed) % 256]

Without(d, keys) == [x \in (DOMAIN d) \ keys |-> d[x]]
(* The dictionary d with key bound as the option o says.                   *)
Field(d, key, o) ==
  IF o.k = "None" THEN Without(d, {key}) ELSE MapPut(d, key, o.v)
Opts(S) == {None} \cup {Some(v) : v \in S}

BaseInfo ==
  ("name" :> ByteString(NameX)) @@ ("piece length" :> Number(16384))
  @@ ("pieces" :> ByteString(PieceBytes(40, 37))) @@ ("length" :> Number(5))

BaseTop == "announce" :> ByteString(UrlA)

Root(top, inf) == Dict(MapPut(top, "info", Dict(inf)))

(* announce-list and announce.                                             *)
TierValues ==
  { Number(0), List(<<>>), List(<<ByteString(UrlA)>>),
    List(<<ByteString(UrlA), ByteString(UrlB)>>),
    List(<<ByteString(UrlB), ByteString(UrlA)>>),
    List(<<Number(1)>>), List(<<ByteString(BadUtf8)>>),
    List(<<ByteString(UrlA), ByteString(NoScheme)>>) }

AnnounceListValues ==
  {Number(0)} \cup {List(l) : l \in SeqsUpTo(TierValues, MaxTiers)}

AnnounceValues ==
  {ByteString(UrlB), Number(7), ByteString(BadUtf8), ByteString(NoScheme)}

TrackerInputs ==
  { Root(Field(Field(BaseTop, "announce-list", al), "announce", an), BaseInfo) :
      al \in Opts(AnnounceListValues), an \in Opts(AnnounceValues) }

(* nodes.                                                                  *)
NodeValues ==
  { Number(0), List(<<>>), List(<<ByteString(HostA)>>),
    List(<<ByteString(HostA), Number(6881)>>),
    List(<<ByteString(HostC), Number(0)>>),
    List(<<ByteString(HostC), Number(65535)>>),
    List(<<ByteString(HostC), Number(65536)>>),
    List(<<ByteString(HostA), Number(-1)>>),
    List(<<ByteString(HostA), Number(80), Number(80)>>),
    List(<<Number(1), ByteString(HostA), Number(2)>>),
    List(<<Number(1)>>),
    List(<<Number(1), Number(80)>>),
    List(<<ByteString(BadUtf8), Number(80)>>),
    List(<<ByteString(BadHost), Number(80)>>),
    List(<<ByteString(HostA), ByteString(HostC)>>) }

NodesValues == {Number(0)} \cup {List(l) : l \in SeqsUpTo(NodeValues, MaxNodes)}

NodeInputs == { Root(Field(BaseTop, "nodes", n), BaseInfo) : n \in Opts(NodesValues) }

(* pieces, name.                                                           *)
PiecesValues ==
  {Number(20)} \cup {ByteString(PieceBytes(n, seed)) :
                       n \in 0..MaxPiecesLen, seed \in {37, 255}}

PiecesInputs ==
  { Root(BaseTop, Field(BaseInfo, "pieces", p)) : p \in Opts(PiecesValues) }

NameValues ==
  { ByteString(<<>>), ByteString(NameX), ByteString(NameU),
    ByteString(BadUtf8), Number(0) }

NameInputs ==
  { Root(BaseTop, Field(Field(BaseInfo, "name", n), "length", l)) :
      n \in Opts(NameValues), l \in {None, Some(Number(5))} }

(* files.                                                                  *)
Paths ==
  { <<NameX>>, <<NameY>>, <<NameX, NameY>>, <<NameX, NameX>>, <<NameY, NameX>>,
    <<NameX, NameY, NameX>>, <<NameX, NameY, NameY>> }

PathValue(p) == List([i \in 1..Len(p) |-> ByteString(p[i])])
FileEntry(p, len) == Dict(("length" :> Number(len)) @@ ("path" :> PathValue(p)))

(* The entry at position i of a well-formed list has length 2 * (i - 1).   *)
WellFormedLists ==
  { [i \in 1..Len(ps) |-> FileEntry(ps[i], 2 * (i - 1))] :
      ps \in SeqsUpTo(Paths, MaxFiles) }

BadEntries ==
  { Number(0),
    Dict("path" :> PathValue(<<NameX>>)),
    Dict(("length" :> ByteString(NameX)) @@ ("path" :> PathValue(<<NameX>>))),
    Dict(("length" :> Number(-1)) @@ ("path" :> PathValue(<<NameX>>))),
    Dict(("length" :> Number(-1)) @@ ("path" :> List(<<>>))),
    Dict("length" :> Number(1)),
    Dict(("length" :> Number(1)) @@ ("path" :> Number(0))),
    Dict(("length" :> Number(1)) @@ ("path" :> List(<<>>))),
    Dict(("length" :> Number(1)) @@ ("path" :> List(<<Number(0), ByteString(NameX)>>))),
    Dict(("length" :> Number(1)) @@ ("path" :> List(<<ByteString(BadUtf8), Number(0)>>))),
    Dict(("length" :> Number(1)) @@ ("path" :> List(<<ByteString(NameX), Number(0)>>))),
    Dict(("length" :> Number(1)) @@ ("path" :> List(<<ByteString(NameX), ByteString(BadUtf8)>>))),
    Dict(("length" :> Number(1)) @@ ("path" :> List(<<ByteString(NameY), ByteString(BadUtf8)>>))),
    Dict(("length" :> Number(1)) @@ ("path" :> List(<<ByteString(NameX), ByteString(NameY), Number(0)>>))) }

MixedLists ==
  { pre \o <<bad>> \o post :
      pre \in {<<>>, <<FileEntry(<<NameX>>, 3)>>, <<FileEntry(<<NameX, NameY>>, 3)>>},
      bad \in BadEntries,
      post \in {<<>>} \cup {<<e>> : e \in BadEntries \cup {FileEntry(<<NameX>>, 9)}} }

FilesInputs ==
  { Root(BaseTop, MapPut(Without(BaseInfo, {"length"}), "files", List(l))) :
      l \in WellFormedLists \cup MixedLists }

(* length and files together.                                              *)
LengthValues == {Number(0), Number(5), Number(-1), ByteString(NameX)}

FilesValues ==
  { Number(0), List(<<>>), List(<<Number(0)>>),
    List(<<FileEntry(<<NameX>>, 1), FileEntry(<<NameX>>, 2)>>),
    List(<<FileEntry(<<NameX>>, 1), FileEntry(<<NameY>>, 2)>>) }

ContentInputs ==
  { Root(BaseTop, Field(Field(BaseInfo, "length", l), "files", f)) :
      l \in Opts(LengthValues), f \in Opts(FilesValues) }

(* Several fields wrong at once: every field is either one that decodes   *)
(* or one that does not, and info is a dictionary, an integer, or absent   *)
(* (its keys then sit in the top-level dictionary).                        *)
OrderTops ==
  { Field(Field(Field(Field(Field(EmptyMap, "announce-list", al), "announce", an),
                      "nodes", n), "url-list", u), "httpseeds", h) :
      al \in {Some(List(<<List(<<ByteString(UrlB)>>)>>)), Some(Number(0))},
      an \in {Some(ByteString(UrlA)), Some(Number(7))},
      n \in {Some(List(<<List(<<ByteString(HostA), Number(6881)>>)>>)),
             Some(List(<<List(<<>>)>>))},
      u \in {Some(ByteString(UrlA)), Some(ByteString(BadUtf8))},
      h \in {Some(List(<<ByteString(UrlB)>>)), Some(List(<<Number(0)>>))} }

OrderContents ==
  { ("length" :> Number(5)) @@ ("files" :> Number(0)),
    ("length" :> ByteString(NameX)) @@ ("files" :> Number(0)),
    "files" :> List(<<Dict(("length" :> Number(-1)) @@ ("path" :> List(<<>>)))>>) }

OrderInfos ==
  { Field(Field(Field(Field(Field(c, "root hash", rh), "private", pr),
                      "name", nm), "piece length", pl), "pieces", ps) :
      c \in OrderContents,
      rh \in {Some(ByteString(PieceBytes(20, 3))), Some(ByteString(PieceBytes(19, 3)))},
      pr \in {Some(Number(1)), Some(ByteString(NameX))},
      nm \in {Some(ByteString(NameY)), None},
      pl \in {Some(Number(16384)), Some(Number(-1))},
      ps \in {Some(ByteString(PieceBytes(20, 5))), Some(ByteString(PieceBytes(39, 5))),
              None} }

OrderInputs ==
  {Number(0), List(<<>>)}
  \cup { Dict(MapPut(top, "info", Number(0))) : top \in OrderTops }
  \cup { Root(top, inf) : top \in OrderTops, inf \in OrderInfos }
  \cup { Dict(top @@ inf) : top \in OrderTops, inf \in OrderInfos }

Inputs == TrackerInputs \cup NodeInputs \cup PiecesInputs \cup NameInputs
          \cup FilesInputs \cup ContentInputs \cup OrderInputs

(* What the file system and the bencode parser answer to load_file and to  *)
(* from_buffer.                                                            *)
PipelineInputs == NameInputs \cup ContentInputs \cup {Number(0)}

Envs(c) ==
  { [open |-> o, read |-> r, parse |-> p] :
      o \in IF c = "load_file" THEN {Ok("file"), Err("NotFound")} ELSE {Ok("file")},
      r \in IF c = "load_file" THEN {Ok("data"), Err("Interrupted")} ELSE {Ok("data")},
      p \in {Err("syntax")} \cup {Ok(b) : b \in PipelineInputs} }

Calls ==
  { [call |-> "from_bencode", env |-> None, bencode |-> b] : b \in Inputs }
  \cup { [call |-> c, env |-> e, bencode |-> None] :
           c \in {"load_file"}, e \in Envs("load_file") }
  \cup { [call |-> c, env |-> e, bencode |-> None] :
           c \in {"from_buffer"}, e \in Envs("from_buffer") }

Entry(c) == IF c = "load_file" THEN "open" ELSE c

Init ==
  \E c \in Calls :
    /\ call = c.call
    /\ env = c.env
    /\ bencode = c.bencode
    /\ pc = Entry(c.call)
    /\ frame = NoFrame
    /\ result = None
    /\ buffer_result = None
    /\ load_result = None

Spec == Init /\ [][Next]_vars

---------------------------------------------------------------------------
(* What the claims speak of.                                               *)

Returned == result # None

IsPrefix(p, q) == Len(p) <= Len(q) /\ SubSeq(q, 1, Len(p)) = p

(* Every step before the content step passes on the dictionary hm.         *)
TopOk(hm) ==
  /\ DecodeAnnounceList(hm).k = "Ok"
  /\ DecodeAnnounce(hm).k = "Ok"
  /\ DecodeNodes(hm).k = "Ok"
  /\ DecodeUrlList(hm).k = "Ok"
  /\ DecodeHttpSeeds(hm).k = "Ok"
  /\ SelectInfo(hm).k = "Ok"

InfoHeadOk(inf) ==
  /\ DecodeRootHash(inf).k = "Ok"
  /\ DecodePrivate(inf).k = "Ok"
  /\ DecodeName(inf).k = "Ok"
  /\ DecodePieceLength(inf).k = "Ok"

PiecesOk(inf) ==
  /\ DecodePieces(inf).k = "Ok"
  /\ Len(inf["pieces"].s) > 0
  /\ Len(inf["pieces"].s) % HashLen = 0

(* The decoder gets as far as the content step (length / files) on b.      *)
ReachesContent(b) ==
  /\ IsCase("Dict", b)
  /\ TopOk(b.d)
  /\ InfoHeadOk(SelectInfo(b.d).v)
  /\ PiecesOk(SelectInfo(b.d).v)

InfoOf(b) == SelectInfo(b.d).v

(* The decoder gets as far as the loop over the files list on b.           *)
ReachesFiles(b) ==
  /\ ReachesContent(b)
  /\ ~HasKey(InfoOf(b), "length")
  /\ DecodeFiles(InfoOf(b)).k = "Ok"

FilesOf(b) == InfoOf(b)["files"].l

(* A files entry that is well-formed on its own.                           *)
WellFormed(e) ==
  /\ IsCase("Dict", e)
  /\ HasKey(e.d, "length") /\ IsCase("Number", e.d["length"]) /\ e.d["length"].n >= 0
  /\ HasKey(e.d, "path") /\ IsCase("List", e.d["path"]) /\ e.d["path"].l # <<>>
  /\ \A i \in 1..Len(e.d["path"].l) :
       /\ IsCase("ByteString", e.d["path"].l[i])
       /\ Utf8From(e.d["path"].l[i].s, 1)

AllWellFormed(fs) == \A i \in 1..Len(fs) : WellFormed(fs[i])

PathOf(e) == [i \in 1..Len(e.d["path"].l) |-> e.d["path"].l[i].s]

(* Entry j of fs has a path that is equal to, a prefix of, or prefixed by  *)
(* the path of an earlier entry.                                           *)
Clashes(fs, j) ==
  \E i \in 1..(j - 1) :
    IsPrefix(PathOf(fs[i]), PathOf(fs[j])) \/ IsPrefix(PathOf(fs[j]), PathOf(fs[i]))

(* C3: with well-formed entries, the decode fails with DuplicateFileName   *)
(* if and only if two entries have paths of which one is equal to or a     *)
(* prefix of the other, whichever comes first, and it fails at the first   *)
(* entry that clashes with an earlier one.                                 *)
C3_NameCollisions ==
  (Returned /\ ReachesFiles(bencode) /\ AllWellFormed(FilesOf(bencode))) =>
    LET fs == FilesOf(bencode)
        bad == {j \in 1..Len(fs) : Clashes(fs, j)}
    IN  IF bad = {}
          THEN result.k = "Ok"
          ELSE /\ result = Err(E("DuplicateFileName"))
               /\ frame.fidx \in bad
               /\ \A j \in bad : frame.fidx <= j

(* The second entry's path is a directory the first entry created.         *)
C3_Witness ==
  /\ Returned /\ ReachesFiles(bencode) /\ AllWellFormed(FilesOf(bencode))
  /\ result = Err(E("DuplicateFileName"))
  /\ frame.fidx = 2
  /\ Len(PathOf(FilesOf(bencode)[2])) < Len(PathOf(FilesOf(bencode)[1]))

(* The paths of all nodes, and of the File leaves with their sizes, of the *)
(* directory map d.                                                        *)
RECURSIVE NodePaths(_)
NodePaths(d) ==
  UNION { {<<nm>>} \cup (IF d[nm].t = "DirNode"
                           THEN {<<nm>> \o p : p \in NodePaths(d[nm].d)}
                           ELSE {}) : nm \in DOMAIN d }

RECURSIVE FileLeaves(_)
FileLeaves(d) ==
  UNION { IF d[nm].t = "DirNode"
            THEN {[path |-> <<nm>> \o f.path, len |-> f.len] : f \in FileLeaves(d[nm].d)}
            ELSE {[path |-> <<nm>>, len |-> d[nm].n]} : nm \in DOMAIN d }

(* C4: a successful multi-file decode yields a Directory whose File leaves *)
(* are exactly the entries (each path with its length, one leaf per        *)
(* entry), whose nodes are exactly the non-empty prefixes of the entries'  *)
(* paths, and which is empty for an empty list.                            *)
C4_TreeReconstruction ==
  (Returned /\ result.k = "Ok" /\ result.v.contents.t = "DirNode") =>
    LET fs == FilesOf(bencode)
        tree == result.v.contents.d
        entries == {[path |-> PathOf(fs[i]), len |-> fs[i].d["length"].n] :
                      i \in 1..Len(fs)}
    IN  /\ FileLeaves(tree) = entries
        /\ Cardinality(FileLeaves(tree)) = Len(fs)
        /\ NodePaths(tree) =
             UNION {{SubSeq(e.path, 1, k) : k \in 1..Len(e.path)} : e \in entries}
        /\ (fs = <<>> => tree = EmptyMap)

(* Three files, two of them below the same directory of depth two.         *)
C4_Witness ==
  /\ Returned /\ result.k = "Ok" /\ result.v.contents.t = "DirNode"
  /\ Len(FilesOf(bencode)) = 3
  /\ \E i, j \in 1..3 :
       /\ i # j
       /\ Len(PathOf(FilesOf(bencode)[i])) = 3
       /\ Len(PathOf(FilesOf(bencode)[j])) = 3

(* The loop over files as a function of the list.                          *)
RECURSIVE FoldFiles(_, _, _)
FoldFiles(fs, i, tree) ==
  IF i > Len(fs) THEN Ok(tree)
  ELSE LET r == DecodeFileInfo(tree, fs[i])
       IN  IF r.k = "Err" THEN r ELSE FoldFiles(fs, i + 1, r.v)

(* C10: with well-formed entries, every permutation of the files list has  *)
(* the outcome of the list: DuplicateFileName, or the same tree.           *)
C10_OrderIndependence ==
  (Returned /\ ReachesFiles(bencode) /\ AllWellFormed(FilesOf(bencode))) =>
    LET fs == FilesOf(bencode)
    IN  \A perm \in Permutations(1..Len(fs)) :
          LET r == FoldFiles([i \in 1..Len(fs) |-> fs[perm[i]]], 1, EmptyMap)
          IN  IF result.k = "Ok"
                THEN r = Ok(result.v.contents.d)
                ELSE r = result /\ r = Err(E("DuplicateFileName"))

(* A directory and a file below it, listed in either order among three.    *)
C10_Witness ==
  /\ Returned /\ ReachesFiles(bencode) /\ AllWellFormed(FilesOf(bencode))
  /\ Len(FilesOf(bencode)) = 3
  /\ result = Err(E("DuplicateFileName"))
  /\ frame.fidx = 3
  /\ Len(PathOf(FilesOf(bencode)[3])) = 1

(* The content step and the files loop pass on the info dictionary inf.    *)
ContentOk(inf) ==
  IF IsSingleFile(inf) THEN DecodeLength(inf["length"]).k = "Ok"
  ELSE /\ DecodeFiles(inf).k = "Ok"
       /\ FoldFiles(inf["files"].l, 1, EmptyMap).k = "Ok"

(* C1: a decodable announce-list gives the trackers and announce is        *)
(* ignored, whatever it holds; without announce-list a valid announce      *)
(* gives one tier of one URL; without both there are no trackers.          *)
C1_TrackerPrecedence ==
  (/\ Returned /\ IsCase("Dict", bencode)
   /\ DecodeNodes(bencode.d).k = "Ok" /\ DecodeUrlList(bencode.d).k = "Ok"
   /\ DecodeHttpSeeds(bencode.d).k = "Ok" /\ SelectInfo(bencode.d).k = "Ok"
   /\ InfoHeadOk(InfoOf(bencode)) /\ PiecesOk(InfoOf(bencode))
   /\ ContentOk(InfoOf(bencode))) =>
    LET hm == bencode.d
        al == DecodeAnnounceList(hm)
        an == DecodeAnnounce(hm)
    IN  /\ (HasKey(hm, "announce-list") /\ al.k = "Ok") =>
             (result.k = "Ok" /\ result.v.trackers = al.v.v)
        /\ (~HasKey(hm, "announce-list") /\ HasKey(hm, "announce") /\ an.k = "Ok") =>
             (result.k = "Ok" /\ result.v.trackers = << <<an.v.v>> >>)
        /\ (~HasKey(hm, "announce-list") /\ ~HasKey(hm, "announce")) =>
             (result.k = "Ok" /\ result.v.trackers = <<>>)

(* The digests of the byte-string p: bytes 20 i + 1 .. 20 i + 20 each.     *)
DigestsOf(p) ==
  [i \in 1..(Len(p) \div HashLen) |->
     [hash |-> SubSeq(p, HashLen * (i - 1) + 1, HashLen * i)]]

(* C2: a pieces byte-string of length n, zero included, fails with         *)
(* InvalidPiecesLength(n) if and only if n is no multiple of 20, and is    *)
(* cut into its n / 20 digests otherwise.                                  *)
C2_PieceSlicing ==
  (/\ Returned /\ IsCase("Dict", bencode) /\ TopOk(bencode.d)
   /\ InfoHeadOk(InfoOf(bencode)) /\ DecodePieces(InfoOf(bencode)).k = "Ok") =>
    LET p == InfoOf(bencode)["pieces"].s
    IN  /\ (result = Err(ELen("InvalidPiecesLength", Len(p))))
             <=> (Len(p) % HashLen # 0)
        /\ (Len(p) % HashLen = 0) => (frame.pieces_vec = DigestsOf(p))

(* The error the steps give in the order root, announce-list, announce,    *)
(* nodes, url-list, httpseeds, info, root hash, private, name, piece       *)
(* length, pieces (presence, then length), length / files, then the files  *)
(* entries in list order, or None when no step fails. A step fails when    *)
(* it, taken alone, returns an error; an empty pieces string fails the     *)
(* length step.                                                            *)
Min(S) == CHOOSE x \in S : \A y \in S : x <= y

FirstErr(rs) ==
  LET bad == {i \in 1..Len(rs) : rs[i].k = "Err"}
  IN  IF bad = {} THEN None ELSE rs[Min(bad)]

PiecesLengthStep(inf) ==
  IF DecodePieces(inf).k = "Err" THEN Ok(0)
  ELSE IF Len(inf["pieces"].s) = 0 \/ Len(inf["pieces"].s) % HashLen # 0
    THEN Err(ELen("InvalidPiecesLength", Len(inf["pieces"].s)))
  ELSE Ok(0)

(* The error of component i and after of the path p of an entry, when the  *)
(* entries before it have the paths prior.                                 *)
RECURSIVE PathErr(_, _, _, _)
PathErr(prior, p, i, walked) ==
  IF i < Len(p)
    THEN IF ~IsCase("ByteString", p[i]) THEN Err(E("DirNameNotAString"))
         ELSE IF ~Utf8From(p[i].s, 1)
           THEN Err(EParse("DirNameInvalidUtf8", "Utf8Error"))
         ELSE IF Append(walked, p[i].s) \in prior
           THEN Err(E("DuplicateFileName"))
         ELSE PathErr(prior, p, i + 1, Append(walked, p[i].s))
    ELSE IF ~IsCase("ByteString", p[i]) THEN Err(E("FileNameNotAString"))
         ELSE IF ~Utf8From(p[i].s, 1)
           THEN Err(EParse("FileNameInvalidUtf8", "Utf8Error"))
         ELSE IF \E q \in prior : IsPrefix(Append(walked, p[i].s), q)
           THEN Err(E("DuplicateFileName"))
         ELSE Ok(Append(walked, p[i].s))

EntryErr(prior, e) ==
  IF ~IsCase("Dict", e) THEN Err(E("FileInfoNotADict"))
  ELSE IF ~HasKey(e.d, "length") THEN Err(E("FileLengthNotPresent"))
  ELSE IF ~IsCase("Number", e.d["length"]) THEN Err(E("FileLengthNotANumber"))
  ELSE IF e.d["length"].n < 0 THEN Err(E("FileLengthOutOfRange"))
  ELSE IF ~HasKey(e.d, "path") THEN Err(E("FilePathNotPresent"))
  ELSE IF ~IsCase("List", e.d["path"]) THEN Err(E("FilePathNotAList"))
  ELSE IF e.d["path"].l = <<>> THEN Err(E("EmptyFilePath"))
  ELSE PathErr(prior, e.d["path"].l, 1, <<>>)

RECURSIVE FilesErr(_, _, _)
FilesErr(fs, i, prior) ==
  IF i > Len(fs) THEN None
  ELSE LET r == EntryErr(prior, fs[i])
       IN  IF r.k = "Err" THEN r ELSE FilesErr(fs, i + 1, prior \cup {r.v})

ContentErr(inf) ==
  IF HasKey(inf, "length") THEN FirstErr(<<DecodeLength(inf["length"])>>)
  ELSE IF DecodeFiles(inf).k = "Err" THEN DecodeFiles(inf)
  ELSE FilesErr(inf["files"].l, 1, {})

ExpectedError(b) ==
  IF ~IsCase("Dict", b) THEN Err(E("NotADict"))
  ELSE LET top == FirstErr(<<DecodeAnnounceList(b.d), DecodeAnnounce(b.d),
                            DecodeNodes(b.d), DecodeUrlList(b.d),
                            DecodeHttpSeeds(b.d), SelectInfo(b.d)>>)
       IN  IF top.k = "Err" THEN top
           ELSE LET inf == InfoOf(b)
                    head == FirstErr(<<DecodeRootHash(inf), DecodePrivate(inf),
                                       DecodeName(inf), DecodePieceLength(inf),
                                       DecodePieces(inf), PiecesLengthStep(inf)>>)
                IN  IF head.k = "Err" THEN head ELSE ContentErr(inf)

(* The locals of from_bencode in the order in which its steps set them.    *)
FrameOrder ==
  <<"announce_list", "announce", "nodes", "urllist", "httpseeds", "info",
    "merkle_root", "private", "name", "piece_length", "pieces">>

(* The steps of FrameOrder that pass on b before the first one that fails. *)
StepsPassed(b) ==
  IF ~IsCase("Dict", b) THEN 0
  ELSE LET top == <<DecodeAnnounceList(b.d), DecodeAnnounce(b.d),
                    DecodeNodes(b.d), DecodeUrlList(b.d),
                    DecodeHttpSeeds(b.d), SelectInfo(b.d)>>
           bad == {i \in 1..6 : top[i].k = "Err"}
       IN  IF bad # {} THEN Min(bad) - 1
           ELSE LET inf == InfoOf(b)
                    head == <<DecodeRootHash(inf), DecodePrivate(inf),
                              DecodeName(inf), DecodePieceLength(inf),
                              DecodePieces(inf)>>
                    badh == {i \in 1..5 : head[i].k = "Err"}
                IN  IF badh # {} THEN 6 + Min(badh) - 1 ELSE 11

(* C5: the error returned is that of the earliest step that fails, the     *)
(* steps after it have not run (their locals are untouched, the call is    *)
(* over), and an error carries no Torrent.                                 *)
C5_FailFastOrder ==
  Returned =>
    /\ pc \in {"returned", "buffer_returned", "load_returned"}
    /\ IF ExpectedError(bencode).k = "Err"
         THEN result = ExpectedError(bencode)
         ELSE result.k = "Ok"
    /\ \A i \in 1..Len(FrameOrder) :
         i > StepsPassed(bencode) => frame[FrameOrder[i]] = NoFrame[FrameOrder[i]]
    /\ (result.k = "Err" /\ StepsPassed(bencode) = 11
        /\ result.e.e # "InvalidPiecesLength" /\ IsSingleFile(frame.info))
         => (frame.files = <<>> /\ frame.fidx = 1 /\ frame.filetree = EmptyMap)

(* A files entry with a negative length and an empty path, after an entry  *)
(* that decodes: the length is reported.                                   *)
C5_Witness ==
  /\ Returned /\ ReachesFiles(bencode)
  /\ frame.fidx = 2 /\ Len(FilesOf(bencode)) >= 2
  /\ LET e == FilesOf(bencode)[2]
     IN  /\ IsCase("Dict", e) /\ HasKey(e.d, "length") /\ HasKey(e.d, "path")
         /\ e.d["length"] = Number(-1) /\ e.d["path"] = List(<<>>)
  /\ result = Err(E("FileLengthOutOfRange"))

(* Several header fields wrong at once.                                    *)
C5_WitnessHeader ==
  /\ Returned /\ IsCase("Dict", bencode)
  /\ DecodeNodes(bencode.d).k = "Err" /\ DecodeUrlList(bencode.d).k = "Err"
  /\ DecodeHttpSeeds(bencode.d).k = "Err"
  /\ result = Err(E("NodeInvalidList"))

(* C6: a length key holding an integer in range makes the decode succeed   *)
(* with File(length) whatever the files key holds, the files key is read   *)
(* only when length is absent, and with both absent the decode fails with  *)
(* NietherLengthOrFilesPresent.                                            *)
C6_ContentShape ==
  (Returned /\ ReachesContent(bencode)) =>
    LET inf == InfoOf(bencode)
    IN  /\ (HasKey(inf, "length") /\ IsCase("Number", inf["length"])
            /\ inf["length"].n >= 0) =>
             /\ result.k = "Ok"
             /\ result.v.contents = FileNode(inf["length"].n)
        /\ HasKey(inf, "length") =>
             /\ frame.files = <<>> /\ frame.fidx = 1 /\ frame.filetree = EmptyMap
             /\ result.k = "Err" => result.e.e \in {"LengthNotANumber", "LengthOutOfRange"}
        /\ (~HasKey(inf, "length") /\ ~HasKey(inf, "files")) =>
             result = Err(E("NietherLengthOrFilesPresent"))
        /\ (~HasKey(inf, "length") /\ HasKey(inf, "files")
            /\ IsCase("List", inf["files"])) => frame.files = inf["files"].l

(* A length next to a files list whose entries collide.                    *)
C6_Witness ==
  /\ Returned /\ ReachesContent(bencode)
  /\ HasKey(InfoOf(bencode), "length") /\ HasKey(InfoOf(bencode), "files")
  /\ IsCase("List", InfoOf(bencode)["files"])
  /\ FoldFiles(InfoOf(bencode)["files"].l, 1, EmptyMap) = Err(E("DuplicateFileName"))
  /\ result.k = "Ok" /\ result.v.contents = FileNode(5)

NodeErr(el) ==
  IF ~IsCase("List", el) THEN Err(E("NodeNotAList"))
  ELSE IF Len(el.l) # 2 THEN Err(E("NodeInvalidList"))
  ELSE IF ~IsCase("ByteString", el.l[1]) THEN Err(E("NodeHostNotAString"))
  ELSE IF ~Utf8From(el.l[1].s, 1) THEN Err(EParse("NodeHostInvalidUtf8", "Utf8Error"))
  ELSE IF HostParse(el.l[1].s).k = "Err"
    THEN Err(EParse("NodeHostParseError", HostParse(el.l[1].s).e))
  ELSE IF ~IsCase("Number", el.l[2]) THEN Err(E("NodePortNotANumber"))
  ELSE IF el.l[2].n < 0 \/ el.l[2].n > 65535 THEN Err(E("NodePortOutOfRange"))
  ELSE None

(* C8: the decode fails at the first element of nodes that is a list of    *)
(* another length than two (NodeInvalidList, whatever it holds) or whose   *)
(* port is an integer outside 0 .. 65535 (NodePortOutOfRange); a port in   *)
(* that range is stored unchanged, and on success nodes holds the          *)
(* (host, port) pairs in list order.                                       *)
C8_NodeList ==
  (/\ Returned /\ IsCase("Dict", bencode)
   /\ DecodeAnnounceList(bencode.d).k = "Ok" /\ DecodeAnnounce(bencode.d).k = "Ok"
   /\ HasKey(bencode.d, "nodes") /\ IsCase("List", bencode.d["nodes"])) =>
    LET nl == bencode.d["nodes"].l
        bad == {i \in 1..Len(nl) : NodeErr(nl[i]).k = "Err"}
    IN  IF bad # {}
          THEN result = NodeErr(nl[Min(bad)])
          ELSE /\ frame.nodes = [i \in 1..Len(nl) |->
                                   [host |-> HostParse(nl[i].l[1].s).v,
                                    port |-> nl[i].l[2].n]]
               /\ result.k = "Ok" => result.v.nodes = frame.nodes

(* A port of 65536 after a node that is accepted with port 65535.          *)
C8_Witness ==
  /\ Returned /\ IsCase("Dict", bencode)
  /\ HasKey(bencode.d, "nodes") /\ IsCase("List", bencode.d["nodes"])
  /\ bencode.d["nodes"].l = <<List(<<ByteString(HostC), Number(65535)>>),
                              List(<<ByteString(HostC), Number(65536)>>)>>
  /\ result = Err(E("NodePortOutOfRange"))

(* A list of three elements of the wrong types, and nodes in order.        *)
C8_WitnessOrder ==
  /\ Returned /\ result.k = "Ok"
  /\ result.v.nodes = <<[host |-> [domain |-> <<97, 46, 98>>], port |-> 6881],
                        [host |-> [domain |-> <<99>>], port |-> 0]>>

(* C9 as stated: a successful decode has a non-empty filename.             *)
C9_NonEmptyFilename ==
  (Returned /\ result.k = "Ok") => Len(result.v.filename) > 0

(* C9 as the code has it: the filename of a successful decode is the name  *)
(* byte-string of info, and a name that is a byte-string of valid UTF-8,   *)
(* of length zero or more, never makes the decode fail.                    *)
C9_FilenameIsName ==
  /\ (Returned /\ result.k = "Ok") =>
       /\ HasKey(frame.info, "name") /\ IsCase("ByteString", frame.info["name"])
       /\ result.v.filename = frame.info["name"].s
  /\ (/\ Returned /\ IsCase("Dict", bencode) /\ TopOk(bencode.d)
      /\ DecodeRootHash(InfoOf(bencode)).k = "Ok"
      /\ DecodePrivate(InfoOf(bencode)).k = "Ok"
      /\ HasKey(InfoOf(bencode), "name")
      /\ IsCase("ByteString", InfoOf(bencode)["name"])
      /\ Utf8From(InfoOf(bencode)["name"].s, 1)
      /\ DecodePieceLength(InfoOf(bencode)).k = "Ok"
      /\ PiecesOk(InfoOf(bencode)) /\ ContentOk(InfoOf(bencode))) =>
       result.k = "Ok"

(* A successful decode of a name of length zero.                           *)
C9_Witness ==
  /\ Returned /\ result.k = "Ok"
  /\ frame.info["name"] = ByteString(<<>>)
  /\ result.v.filename = <<>>

============================================================================
